---- MODULE Spec2Model ----
(***************************************************************************)
(* Behavior Rubric App (behavior_rubric_app_react_single_file.jsx).        *)
(*                                                                         *)
(* The React component BehaviorRubricApp is modelled as a state machine.   *)
(* Its useState cells are the variables; every event handler is one        *)
(* action, which includes the render that follows it and the effects that  *)
(* render schedules (create-on-key, reconciliation), run to quiescence.   *)
(* The only asynchronous step is the FileReader of importSettingsJSON:     *)
(* starting a read and its onload completion are two actions.              *)
(*                                                                         *)
(* JavaScript values: a non-negative integer is itself; null, NaN and      *)
(* undefined are the codes Null, NaN, Undefined (all negative, and no      *)
(* number the program stores is negative: every stored number comes out    *)
(* of clamp with a lower bound >= 0).  A string that is parsed is a        *)
(* sequence of one-character strings.  An object with optional properties  *)
(* is a function whose DOMAIN is the set of properties it has.             *)
(***************************************************************************)
EXTENDS Integers, Sequences, FiniteSets, TLC

Null      == -1
NaN       == -2
Undefined == -3

IsNumber(x) == x >= 0

Max2(a, b) == IF a >= b THEN a ELSE b
Min2(a, b) == IF a <= b THEN a ELSE b

\* ToNumber of a stored value: null -> 0, undefined -> NaN
ToNumber(x) == IF x = Null THEN 0 ELSE IF x = Undefined THEN NaN ELSE x

\* property read: obj.f, undefined when the object has no such property
Get(obj, f) == IF f \in DOMAIN obj THEN obj[f] ELSE Undefined

\* object spread with one property set: {...obj, [f]: v}
Put(obj, f, v) == [g \in (DOMAIN obj) \cup {f} |-> IF g = f THEN v ELSE obj[g]]

-----------------------------------------------------------------------------
(* parseInt(string, 10)                                                    *)

IsDigit(ch) == ch \in {"0", "1", "2", "3", "4", "5", "6", "7", "8", "9"}

DigitVal(ch) ==
  CASE ch = "0" -> 0 [] ch = "1" -> 1 [] ch = "2" -> 2 [] ch = "3" -> 3
    [] ch = "4" -> 4 [] ch = "5" -> 5 [] ch = "6" -> 6 [] ch = "7" -> 7
    [] ch = "8" -> 8 [] ch = "9" -> 9

RECURSIVE SkipSpace(_)
SkipSpace(s) ==
  IF s # <<>> /\ Head(s) = " " THEN SkipSpace(Tail(s)) ELSE s

RECURSIVE LeadingDigits(_)
LeadingDigits(s) ==
  IF s # <<>> /\ IsDigit(Head(s)) THEN <<Head(s)>> \o LeadingDigits(Tail(s))
  ELSE <<>>

RECURSIVE DigitsValue(_, _)
DigitsValue(ds, acc) ==
  IF ds = <<>> THEN acc ELSE DigitsValue(Tail(ds), 10 * acc + DigitVal(Head(ds)))

\* the result is [nan |-> TRUE] or [nan |-> FALSE, n |-> the integer]
parseInt(s) ==
  LET t    == SkipSpace(s)
      sgn  == IF t # <<>> /\ Head(t) = "-" THEN -1 ELSE 1
      body == IF t # <<>> /\ Head(t) \in {"-", "+"} THEN Tail(t) ELSE t
      ds   == LeadingDigits(body)
  IN IF ds = <<>> THEN [nan |-> TRUE, n |-> 0]
     ELSE [nan |-> FALSE, n |-> sgn * DigitsValue(ds, 0)]

\* clamp without its Math.min: the upper bound is not applied
clampNoUpper(pn, min, max) ==
  IF pn.nan \/ ToNumber(max) = NaN THEN NaN ELSE Max2(min, pn.n)

\* clamp(n, min, max) = Math.max(min, Math.min(max, n)); n a parseInt result,
\* min a non-negative integer, max a stored value.  NaN is contagious.
clamp(pn, min, max) ==
  IF pn.nan \/ ToNumber(max) = NaN THEN NaN
  ELSE Max2(min, Min2(ToNumber(max), pn.n))

\* e.target.value || 0, then String() of it as parseInt sees it
OrZero(s) == IF s = <<>> THEN <<"0">> ELSE s

-----------------------------------------------------------------------------
(* Bounds of the model                                                     *)

MaxCatIds     == 2    \* category ids uid() hands out
MaxPerIds     == 2    \* period ids uid() hands out
MaxStudentIds == 2    \* student ids uid() hands out
MaxDate       == 2    \* calendar dates 1..MaxDate
MaxReads      == 1    \* FileReader reads in flight
MaxSteps      == 3    \* user actions and read completions in one run

Dates == 1..MaxDate

-----------------------------------------------------------------------------
(* State                                                                   *)

VARIABLES
  students,    \* useState: roster, a sequence of [id, name]
  settings,    \* useState: categories, periods, scaleMax, scaleLabels, goalPoints
  date,        \* useState: the active date
  studentId,   \* useState: the active student id
  entries,     \* useState: key -> record, key = <<date, studentId>>
  uids,        \* ids uid() has handed out so far, per kind
  reads,       \* FileReader reads in flight: the key their onload closed over, and the file
  alerted,     \* the last completed import called alert()
  crashed,     \* a render threw: React unmounted the component
  steps,       \* handlers run so far
  last,        \* the handler that ran last
  totals       \* the result of the totals useMemo, where a run computes it

vars == <<students, settings, date, studentId, entries, uids, reads, alerted, crashed,
          steps, last, totals>>

\* the totals are derived on demand: the handlers neither read nor store them
NotRendered == [rendered |-> FALSE]

\* a handler runs: the component is mounted and the run has steps left
Handler(name) ==
  /\ ~crashed
  /\ steps < MaxSteps
  /\ steps' = steps + 1
  /\ last' = name
  /\ totals' = totals

\* const key = `${date}__${studentId}`
Key(d, sid) == <<d, sid>>
key == Key(date, studentId)

Ids(items) == {items[i].id : i \in DOMAIN items}
CatIds(s) == Ids(s.categories)
PerIds(s) == Ids(s.periods)

SethExample == <<"S", "e", "t", "h", " ", "E", "x", "a", "m", "p", "l", "e">>

DefaultLabels == [n \in 0..3 |->
  CASE n = 0 -> "Not Met" [] n = 1 -> "Emerging" [] n = 2 -> "Meets" [] n = 3 -> "Exceeds"]

\* DEFAULT_SETTINGS, with the taxonomy of a stored snapshot that keeps one
\* category and one period (loadLS()?.settings ?? DEFAULT_SETTINGS)
InitSettings ==
  [scaleMax    |-> 3,
   scaleLabels |-> DefaultLabels,
   categories  |-> <<[id |-> 1, name |-> "Be Respectful"]>>,
   periods     |-> <<[id |-> 1, name |-> "Arrival"]>>,
   goalPoints  |-> 24]

-----------------------------------------------------------------------------
(* Records                                                                 *)

EmptyObj == [x \in {} |-> Null]

\* the all-null matrix of the record useMemo and of the import
NewMatrix(s) == [p \in PerIds(s) |-> [c \in CatIds(s) |-> Null]]

\* the record useMemo builds when entries has none for the key
NewRecord(s, d, sid) ==
  [studentId      |-> sid,
   date           |-> d,
   matrix         |-> NewMatrix(s),
   periodComments |-> EmptyObj,
   dailyNote      |-> "",
   staff          |-> ""]

\* a reconciliation that rebuilds the matrix instead of completing it
ReconcileMatrixRebuilding(m, s) == NewMatrix(s)

\* a reconciliation that, besides adding the missing cells as null, scores
\* the cells it finds unset as 0
ReconcileMatrixDefaulting(m, s) ==
  [p \in (DOMAIN m) \cup PerIds(s) |->
     LET row == IF p \in DOMAIN m THEN m[p] ELSE EmptyObj
     IN IF p \in PerIds(s)
        THEN [c \in (DOMAIN row) \cup CatIds(s) |->
                IF c \in DOMAIN row THEN (IF row[c] = Null THEN 0 ELSE row[c]) ELSE Null]
        ELSE row]

\* nextMatrix of the reconciliation effect: missing rows and cells are added
\* as null, nothing present is touched
ReconcileMatrix(m, s) ==
  [p \in (DOMAIN m) \cup PerIds(s) |->
     LET row == IF p \in DOMAIN m THEN m[p] ELSE EmptyObj
     IN IF p \in PerIds(s)
        THEN [c \in (DOMAIN row) \cup CatIds(s) |->
                IF c \in DOMAIN row THEN row[c] ELSE Null]
        ELSE row]

\* useEffect(..., [key]): create the record of the key when entries has none
CreateEffect(ent, s, d, sid) ==
  IF Key(d, sid) \in DOMAIN ent THEN ent
  ELSE Put(ent, Key(d, sid), NewRecord(s, d, sid))

\* the reconciliation effect left out
ReconcileEffectSkipped(ent, s, k) == ent

\* a reconciliation effect that runs against every record of entries
ReconcileEffectAll(ent, s, k) ==
  [j \in DOMAIN ent |-> Put(ent[j], "matrix", ReconcileMatrix(ent[j].matrix, s))]

\* useEffect(..., [settings.periods, settings.categories, key])
ReconcileEffect(ent, s, k) ==
  IF k \notin DOMAIN ent THEN ent
  ELSE [ent EXCEPT ![k] = Put(@, "matrix", ReconcileMatrix(@.matrix, s))]

\* The effects a render schedules, in declaration order, applied to the
\* entries the handler left: the create effect when the key changed, then
\* the reconciliation effect when the key or the taxonomy arrays changed.
Effects(ent, s, d, sid, keyChanged, taxChanged) ==
  LET e1 == IF keyChanged THEN CreateEffect(ent, s, d, sid) ELSE ent
  IN IF keyChanged \/ taxChanged THEN ReconcileEffect(e1, s, Key(d, sid)) ELSE e1

-----------------------------------------------------------------------------
(* Initial state: the component after mount, effects run                   *)

\* loadLS()?.entries ?? {}: nothing stored, or the snapshot of an earlier
\* session in which the one cell of the record of (1, 1) was scored 2
StoredEntries ==
  { EmptyObj,
    [k \in {Key(1, 1)} |->
       [NewRecord(InitSettings, 1, 1) EXCEPT !.matrix = [p \in {1} |-> [c \in {1} |-> 2]]]] }

Init ==
  /\ students = <<[id |-> 1, name |-> SethExample]>>
  /\ settings = InitSettings
  /\ date = 1
  /\ studentId = 1
  /\ \E stored \in StoredEntries :
       entries = Effects(stored, InitSettings, 1, 1, TRUE, TRUE)
  /\ uids = [cat |-> 1, per |-> 1, stu |-> 1]
  /\ reads = <<>>
  /\ alerted = FALSE
  /\ crashed = FALSE
  /\ steps = 0
  /\ last = "mount"
  /\ totals = NotRendered

-----------------------------------------------------------------------------
(* Inputs the user can give                                                *)

ScoreRaws == {<<>>, <<"a", "b", "c">>, <<"5">>, <<"-", "1">>, <<"2">>}
ScaleRaws == {<<>>, <<".", "5">>, <<"1", "2">>}
GoalRaws  == {<<"2">>, <<".", "5">>}
NameRaws  == {<<" ">>, <<" ", "A", "l">>}
ItemNames == {"On Task"}
RecordEdits == {[dailyNote |-> "Good day"]}

-----------------------------------------------------------------------------
(* Date and student selection                                              *)

\* onChange of the date input: setDate(e.target.value)
SetDate(d) ==
  /\ Handler("setDate")
  /\ d # date
  /\ date' = d
  /\ entries' = Effects(entries, settings, d, studentId, TRUE, FALSE)
  /\ UNCHANGED <<students, settings, studentId, uids, reads, alerted, crashed>>

\* the student select and the Select buttons: setStudentId(s.id)
SelectStudent(sid) ==
  /\ Handler("setStudentId")
  /\ sid \in Ids(students)
  /\ sid # studentId
  /\ studentId' = sid
  /\ entries' = Effects(entries, settings, date, sid, TRUE, FALSE)
  /\ UNCHANGED <<students, settings, date, uids, reads, alerted, crashed>>

\* String.prototype.trim on the spaces of the name
RECURSIVE TrimEnd(_)
TrimEnd(s) ==
  IF s # <<>> /\ s[Len(s)] = " " THEN TrimEnd(SubSeq(s, 1, Len(s) - 1)) ELSE s

Trim(s) == TrimEnd(SkipSpace(s))

addStudent(name) ==
  /\ Handler("addStudent")
  /\ uids.stu < MaxStudentIds
  /\ Trim(name) # <<>>
  /\ LET sid == uids.stu + 1
     IN /\ students' = Append(students, [id |-> sid, name |-> Trim(name)])
        /\ studentId' = sid
        /\ uids' = [uids EXCEPT !.stu = sid]
        /\ entries' = Effects(entries, settings, date, sid, TRUE, FALSE)
  /\ UNCHANGED <<settings, date, reads, alerted, crashed>>

\* a removal that also purges the records of the student
removeStudentPurging(id, ok) ==
  /\ id \in Ids(students)
  /\ Handler("removeStudent")
  /\ IF ~ok
     THEN UNCHANGED <<students, settings, date, studentId, entries, uids, reads,
                      alerted, crashed>>
     ELSE LET sid  == IF studentId = id THEN students[1].id ELSE studentId
              kept == {k \in DOMAIN entries : k[2] # id}
          IN /\ students' = SelectSeq(students, LAMBDA s : s.id # id)
             /\ studentId' = sid
             /\ entries' = Effects([k \in kept |-> entries[k]], settings, date, sid,
                                   sid # studentId, FALSE)
             /\ UNCHANGED <<settings, date, uids, reads, alerted, crashed>>

\* removeStudent(id); ok is the answer to confirm().  The handler reads the
\* roster of the render it was created in: students[0] is the first student
\* before the removal.
removeStudent(id, ok) ==
  /\ id \in Ids(students)
  /\ Handler("removeStudent")
  /\ IF ~ok
     THEN UNCHANGED <<students, settings, date, studentId, entries, uids, reads,
                      alerted, crashed>>
     ELSE LET sid == IF studentId = id THEN students[1].id ELSE studentId
          IN /\ students' = SelectSeq(students, LAMBDA s : s.id # id)
             /\ studentId' = sid
             /\ entries' = Effects(entries, settings, date, sid, sid # studentId, FALSE)
             /\ UNCHANGED <<settings, date, uids, reads, alerted, crashed>>

-----------------------------------------------------------------------------
(* Settings editors                                                        *)

\* setSettings(next) followed by the render and its effects
CommitSettings(next, taxChanged) ==
  /\ settings' = next
  /\ entries' = Effects(entries, next, date, studentId, FALSE, taxChanged)

addCategory ==
  /\ Handler("addCategory")
  /\ uids.cat < MaxCatIds
  /\ uids' = [uids EXCEPT !.cat = @ + 1]
  /\ CommitSettings(
       Put(settings, "categories",
           Append(settings.categories, [id |-> uids.cat + 1, name |-> "New Category"])),
       TRUE)
  /\ UNCHANGED <<students, date, studentId, reads, alerted, crashed>>

addPeriod ==
  /\ Handler("addPeriod")
  /\ uids.per < MaxPerIds
  /\ uids' = [uids EXCEPT !.per = @ + 1]
  /\ CommitSettings(
       Put(settings, "periods",
           Append(settings.periods, [id |-> uids.per + 1, name |-> "New Period"])),
       TRUE)
  /\ UNCHANGED <<students, date, studentId, reads, alerted, crashed>>

\* ReorderableList: next.splice(idx, 1) then next.splice(j, 0, it)
MoveItem(items, i, j) ==
  LET it   == items[i]
      rest == SubSeq(items, 1, i - 1) \o SubSeq(items, i + 1, Len(items))
  IN SubSeq(rest, 1, j - 1) \o <<it>> \o SubSeq(rest, j, Len(rest))

RemoveItem(items, i) == SubSeq(items, 1, i - 1) \o SubSeq(items, i + 1, Len(items))

RenameItem(items, i, name) == [items EXCEPT ![i] = [@ EXCEPT !.name = name]]

\* ReorderableList.move(idx, dir) on settings[list], list = "categories" or "periods"
move(list, i, dir) ==
  /\ Handler("move")
  /\ i \in DOMAIN settings[list]
  /\ i + dir \in DOMAIN settings[list]
  /\ CommitSettings(Put(settings, list, MoveItem(settings[list], i, i + dir)), TRUE)
  /\ UNCHANGED <<students, date, studentId, uids, reads, alerted, crashed>>

\* ReorderableList.remove(idx)
remove(list, i) ==
  /\ Handler("remove")
  /\ i \in DOMAIN settings[list]
  /\ CommitSettings(Put(settings, list, RemoveItem(settings[list], i)), TRUE)
  /\ UNCHANGED <<students, date, studentId, uids, reads, alerted, crashed>>

\* ReorderableList.rename(idx, name), and the EditableText of the table header
rename(list, i, name) ==
  /\ Handler("rename")
  /\ i \in DOMAIN settings[list]
  /\ CommitSettings(Put(settings, list, RenameItem(settings[list], i, name)), TRUE)
  /\ UNCHANGED <<students, date, studentId, uids, reads, alerted, crashed>>

\* a scaleMax edit that clamps the stored scores to the new maximum
SetScaleMaxClamping(raw) ==
  /\ Handler("setScaleMax")
  /\ LET sm == clamp(parseInt(OrZero(raw)), 1, 10)
     IN /\ settings' = Put(settings, "scaleMax", sm)
        /\ entries' =
             [k \in DOMAIN entries |->
                Put(entries[k], "matrix",
                    [p \in DOMAIN entries[k].matrix |->
                       [c \in DOMAIN entries[k].matrix[p] |->
                          LET v == entries[k].matrix[p][c]
                          IN IF IsNumber(sm) /\ v > sm THEN sm ELSE v]])]
  /\ UNCHANGED <<students, date, studentId, uids, reads, alerted, crashed>>

\* onChange of "Max score per cell"
SetScaleMax(raw) ==
  /\ Handler("setScaleMax")
  /\ CommitSettings(Put(settings, "scaleMax", clamp(parseInt(OrZero(raw)), 1, 10)), FALSE)
  /\ UNCHANGED <<students, date, studentId, uids, reads, alerted, crashed>>

\* onChange of "Daily Point Goal"
SetGoalPoints(raw) ==
  /\ Handler("setGoalPoints")
  /\ CommitSettings(Put(settings, "goalPoints", clamp(parseInt(OrZero(raw)), 0, 999)), FALSE)
  /\ UNCHANGED <<students, date, studentId, uids, reads, alerted, crashed>>

-----------------------------------------------------------------------------
(* Scoring and record edits                                                *)

\* setScore rejecting what is out of range instead of saturating it
ScoreValueRejecting(raw, s) ==
  LET pn == parseInt(raw)
  IN IF raw = <<>> \/ pn.nan \/ ToNumber(Get(s, "scaleMax")) = NaN THEN Null
     ELSE IF pn.n < 0 \/ pn.n > ToNumber(Get(s, "scaleMax")) THEN Null
     ELSE pn.n

\* the value setScore stores for the raw text of the select
ScoreValue(raw, s) ==
  LET v == IF raw = <<>> THEN Null ELSE clamp(parseInt(raw), 0, Get(s, "scaleMax"))
  IN IF v = NaN THEN Null ELSE v

\* the entries updater of setScore
ScoreEntries(ent, k, p, c, v) ==
  LET rec == ent[k]
      row == IF p \in DOMAIN rec.matrix THEN rec.matrix[p] ELSE EmptyObj
  IN Put(ent, k, Put(rec, "matrix", Put(rec.matrix, p, Put(row, c, v))))

setScore(p, c, raw) ==
  /\ Handler("setScore")
  /\ p \in PerIds(settings)
  /\ c \in CatIds(settings)
  /\ entries' = ScoreEntries(entries, key, p, c, ScoreValue(raw, settings))
  /\ UNCHANGED <<students, settings, date, studentId, uids, reads, alerted, crashed>>

\* {...obj, ...mut}
Merge(obj, mut) ==
  [f \in (DOMAIN obj) \cup (DOMAIN mut) |-> IF f \in DOMAIN mut THEN mut[f] ELSE obj[f]]

updateRecord(mut) ==
  /\ Handler("updateRecord")
  /\ entries' = Put(entries, key, Merge(entries[key], mut))
  /\ UNCHANGED <<students, settings, date, studentId, uids, reads, alerted, crashed>>

-----------------------------------------------------------------------------
(* Settings export and import                                              *)

\* A file is text that is not JSON, or JSON text of a scalar, of null, or of
\* an object; val is the object JSON.parse returns for it.
TextFile   == [kind |-> "text"]
ScalarFile == [kind |-> "scalar"]
NullFile   == [kind |-> "null"]
ObjectFile(obj) == [kind |-> "object", val |-> obj]

Without(obj, f) == [g \in (DOMAIN obj) \ {f} |-> obj[g]]

\* JSON.stringify of a number: NaN is written as null
JSONNumber(x) == IF x = NaN THEN Null ELSE x

\* JSON.stringify(settings, null, 2): the file exportSettingsJSON downloads
exportSettingsJSON(s) ==
  ObjectFile([f \in DOMAIN s |->
    IF f \in {"scaleMax", "goalPoints"} THEN JSONNumber(s[f]) ELSE s[f]])

\* the files the user can pick: the export of the current settings,
\* hand-edited exports, and files that are not settings
Files(s) ==
  { TextFile, ScalarFile, NullFile,
    ObjectFile(Without(exportSettingsJSON(InitSettings).val, "periods")),
    ObjectFile(Without(exportSettingsJSON(InitSettings).val, "goalPoints")),
    exportSettingsJSON(s) }

\* JSON.parse(e.target.result) of a file that holds a JSON object
JSONparse(file) == file.val

\* importSettingsJSON(file): reader.readAsText(file); onload closes over key
importSettingsJSON(file) ==
  /\ Handler("importSettingsJSON")
  /\ Len(reads) < MaxReads
  /\ reads' = Append(reads, [key |-> key, file |-> file])
  /\ UNCHANGED <<students, settings, date, studentId, entries, uids, alerted, crashed>>

\* the try block of onload throws before any setState
Rejected(file) == file.kind \in {"text", "scalar", "null"}

\* parsed.periods.forEach / parsed.categories.forEach is reached with a
\* property that is not there: the updater, or the render after it, throws
Unrenderable(file) ==
  /\ file.kind = "object"
  /\ ~ {"categories", "periods"} \subseteq DOMAIN file.val

\* the entries updater of onload: the matrix of the record under the key of
\* the closure is rebuilt, all null, for the parsed taxonomy
ImportEntries(ent, k, parsed) ==
  LET rec == IF k \in DOMAIN ent THEN ent[k] ELSE EmptyObj
  IN Put(ent, k, Put(rec, "matrix", NewMatrix(parsed)))

\* reader.onload of the i-th read in flight
onload(i) ==
  /\ i \in DOMAIN reads
  /\ Handler("onload")
  /\ reads' = RemoveItem(reads, i)
  /\ LET file == reads[i].file
         k    == reads[i].key
     IN IF Rejected(file)
        THEN /\ alerted' = TRUE
             /\ UNCHANGED <<students, settings, date, studentId, entries, uids, crashed>>
        ELSE IF Unrenderable(file)
        THEN /\ crashed' = TRUE
             /\ alerted' \in BOOLEAN
             /\ UNCHANGED <<students, settings, date, studentId, entries, uids>>
        ELSE /\ alerted' = FALSE
             /\ settings' = JSONparse(file)
             /\ entries' = Effects(ImportEntries(entries, k, JSONparse(file)),
                                   JSONparse(file), date, studentId, FALSE, TRUE)
             /\ UNCHANGED <<students, date, studentId, uids, crashed>>

-----------------------------------------------------------------------------
(* The application                                                         *)

Lists == {"categories", "periods"}

ChangeDate     == \E d \in Dates : SetDate(d)
ChooseStudent  == \E sid \in 1..MaxStudentIds : SelectStudent(sid)
AddStudent     == \E name \in NameRaws : addStudent(name)
RemoveStudent  == \E id \in 1..MaxStudentIds, ok \in BOOLEAN : removeStudent(id, ok)
AddCategory    == addCategory
AddPeriod      == addPeriod
MoveListItem   == \E list \in Lists, i \in 1..MaxCatIds + MaxPerIds, dir \in {-1, 1} : move(list, i, dir)
RemoveListItem == \E list \in Lists, i \in 1..MaxCatIds + MaxPerIds : remove(list, i)
RenameListItem == \E list \in Lists, i \in 1..MaxCatIds + MaxPerIds, name \in ItemNames : rename(list, i, name)
ChangeScaleMax == \E raw \in ScaleRaws : SetScaleMax(raw)
ChangeGoal     == \E raw \in GoalRaws : SetGoalPoints(raw)
SetScore       == \E p \in 1..MaxPerIds, c \in 1..MaxCatIds, raw \in ScoreRaws : setScore(p, c, raw)
EditRecord     == \E mut \in RecordEdits : updateRecord(mut)
StartImport    == \E file \in Files(settings) : importSettingsJSON(file)
FinishImport   == \E i \in 1..MaxReads : onload(i)

Next ==
  \/ ChangeDate
  \/ ChooseStudent
  \/ AddStudent
  \/ RemoveStudent
  \/ AddCategory
  \/ AddPeriod
  \/ MoveListItem
  \/ RemoveListItem
  \/ RenameListItem
  \/ ChangeScaleMax
  \/ ChangeGoal
  \/ SetScore
  \/ EditRecord
  \/ StartImport
  \/ FinishImport

Spec == Init /\ [][Next]_vars

-----------------------------------------------------------------------------
(* IEEE 754 double arithmetic of (total / max) * 100 and Math.round        *)
(*                                                                         *)
(* A positive double is [bits, e]: 53 significand bits, most significant   *)
(* first and 1, and the exponent e of that first bit; its value is the sum *)
(* of bits[i] * 2^(e + 1 - i).  Zero is [bits |-> <<>>, e |-> 0].  Long    *)
(* division and multiplication work on limbs of 16 bits, so that every     *)
(* intermediate integer stays below 2^31.                                  *)

Precision == 53
LimbBits == 16
Limb == 65536

RECURSIVE Pow2(_)
Pow2(n) == IF n = 0 THEN 1 ELSE 2 * Pow2(n - 1)

\* the largest e >= 0 with d * 2^e <= t, for t >= d
RECURSIVE ExpUp(_, _, _)
ExpUp(t, d, e) == IF 2 * d * Pow2(e) <= t THEN ExpUp(t, d, e + 1) ELSE e

\* the smallest k > 0 with t * 2^k >= d, for 0 < t < d
RECURSIVE ExpDown(_, _, _)
ExpDown(t, d, k) == IF t * Pow2(k) >= d THEN k ELSE ExpDown(t, d, k + 1)

\* n as a sequence of w bits
RECURSIVE Binary(_, _)
Binary(n, w) == IF w = 0 THEN <<>> ELSE Binary(n \div 2, w - 1) \o <<n % 2>>

\* the integer a sequence of bits denotes
RECURSIVE BitsValue(_, _)
BitsValue(bits, acc) ==
  IF bits = <<>> THEN acc ELSE BitsValue(Tail(bits), 2 * acc + Head(bits))

\* the bits of a sequence of limbs
RECURSIVE Unpack(_)
Unpack(limbs) ==
  IF limbs = <<>> THEN <<>> ELSE Binary(Head(limbs), LimbBits) \o Unpack(Tail(limbs))

\* the limbs of a sequence of bits whose length is a multiple of LimbBits
Pack(bits) ==
  [j \in 1..(Len(bits) \div LimbBits) |->
     BitsValue(SubSeq(bits, LimbBits * (j - 1) + 1, LimbBits * j), 0)]

Zeros(n) == [i \in 1..n |-> 0]

\* the next n limbs of the binary expansion of r / d (r < d < 2^15), and the
\* remainder
RECURSIVE DivLimbs(_, _, _)
DivLimbs(r, d, n) ==
  IF n = 0 THEN [limbs |-> <<>>, rem |-> r]
  ELSE LET rest == DivLimbs((r * Limb) % d, d, n - 1)
       IN [limbs |-> <<(r * Limb) \div d>> \o rest.limbs, rem |-> rest.rem]

\* bits + 1, with the carry out of the first bit
Increment(bits) ==
  LET zeros == {i \in 1..Len(bits) : bits[i] = 0}
  IN IF zeros = {} THEN [bits |-> Zeros(Len(bits)), carry |-> 1]
     ELSE LET j == CHOOSE i \in zeros : \A k \in zeros : k <= i
          IN [bits  |-> [i \in 1..Len(bits) |->
                           IF i < j THEN bits[i] ELSE IF i = j THEN 1 ELSE 0],
              carry |-> 0]

\* round to nearest, ties to even: guard is the first bit dropped, sticky
\* tells whether anything non-zero follows it
RoundNearestEven(bits, e, guard, sticky) ==
  IF guard = 1 /\ (sticky \/ bits[Len(bits)] = 1)
  THEN LET up == Increment(bits)
       IN IF up.carry = 1
          THEN [bits |-> <<1>> \o SubSeq(up.bits, 1, Len(bits) - 1), e |-> e + 1]
          ELSE [bits |-> up.bits, e |-> e]
  ELSE [bits |-> bits, e |-> e]

\* the first Precision bits of a significand that starts with 1, rounded on
\* the bits that follow and on whether anything non-zero lies beyond them
Rounded(sig, e, beyond) ==
  LET lost == SubSeq(sig, Precision + 1, Len(sig))
  IN RoundNearestEven(SubSeq(sig, 1, Precision), e,
                      IF lost = <<>> THEN 0 ELSE Head(lost),
                      beyond \/ \E i \in 2..Len(lost) : lost[i] = 1)

\* the double nearest to t / d, for integers t >= 0 and d > 0
DoubleDiv(t, d) ==
  IF t = 0 THEN [bits |-> <<>>, e |-> 0]
  ELSE LET e   == IF t >= d THEN ExpUp(t, d, 0) ELSE 0 - ExpDown(t, d, 1)
           num == IF e >= 0 THEN t ELSE t * Pow2(0 - e)
           den == IF e >= 0 THEN d * Pow2(e) ELSE d
           q   == DivLimbs(num - den, den, 4)
       IN Rounded(<<1>> \o Unpack(q.limbs), e, q.rem # 0)

\* limbs * k for a small integer k, with the carry out of the first limb
RECURSIVE TimesSmall(_, _)
TimesSmall(limbs, k) ==
  IF limbs = <<>> THEN [limbs |-> <<>>, carry |-> 0]
  ELSE LET rest == TimesSmall(Tail(limbs), k)
           v    == Head(limbs) * k + rest.carry
       IN [limbs |-> <<v % Limb>> \o rest.limbs, carry |-> v \div Limb]

\* the double nearest to x * k, for a double x and an integer 0 < k < 128
DoubleTimes(x, k) ==
  IF x.bits = <<>> THEN x
  ELSE LET pad  == 4 * LimbBits - Precision
           prod == TimesSmall(Pack(Zeros(pad) \o x.bits), k)
           all  == Binary(prod.carry, 7) \o Unpack(prod.limbs)
           z    == (CHOOSE i \in 1..Len(all) : all[i] = 1 /\ \A j \in 1..(i - 1) : all[j] = 0) - 1
       IN Rounded(SubSeq(all, z + 1, Len(all)), x.e + 7 + pad - z, FALSE)

\* Math.round of a non-negative double below 2^31: the nearest integer, a
\* tie going up
MathRound(x) ==
  IF x.bits = <<>> \/ x.e < -1 THEN 0
  ELSE IF x.e = -1 THEN 1
  ELSE BitsValue(SubSeq(x.bits, 1, x.e + 1), 0)
       + (IF x.e + 2 <= Len(x.bits) THEN x.bits[x.e + 2] ELSE 0)

-----------------------------------------------------------------------------
(* Totals                                                                  *)

\* a + b of two stored values: null counts 0, undefined and NaN give NaN
Plus(a, b) ==
  IF ToNumber(a) = NaN \/ ToNumber(b) = NaN THEN NaN ELSE ToNumber(a) + ToNumber(b)

\* record.matrix?.[p.id]?.[c.id]
Cell(rec, p, c) ==
  IF "matrix" \in DOMAIN rec /\ p \in DOMAIN rec.matrix /\ c \in DOMAIN rec.matrix[p]
  THEN rec.matrix[p][c] ELSE Undefined

\* settings.categories.forEach of one period: t and m after the first n categories
RECURSIVE PeriodSums(_, _, _, _)
PeriodSums(rec, s, p, n) ==
  IF n = 0 THEN [total |-> 0, max |-> 0]
  ELSE LET acc == PeriodSums(rec, s, p, n - 1)
           val == Cell(rec, p, s.categories[n].id)
       IN [total |-> IF val # Null /\ val # Undefined THEN Plus(acc.total, val)
                     ELSE acc.total,
           max   |-> Plus(acc.max, Get(s, "scaleMax"))]

\* settings.periods.forEach: total and max after the first n periods
RECURSIVE DailySums(_, _, _)
DailySums(rec, s, n) ==
  IF n = 0 THEN [total |-> 0, max |-> 0]
  ELSE LET acc == DailySums(rec, s, n - 1)
           per == PeriodSums(rec, s, s.periods[n].id, Len(s.categories))
       IN [total |-> Plus(acc.total, per.total), max |-> Plus(acc.max, per.max)]

\* max > 0 ? Math.round((total / max) * 100) : 0
Percent(total, max) ==
  IF max > 0
  THEN IF total = NaN THEN NaN ELSE MathRound(DoubleTimes(DoubleDiv(total, max), 100))
  ELSE 0

\* totalPoints >= settings.goalPoints
GoalMet(total, s) ==
  LET goal == ToNumber(Get(s, "goalPoints"))
  IN total # NaN /\ goal # NaN /\ total >= goal

\* the totals useMemo, and the goal test of the summary
Totals(rec, s) ==
  LET day == DailySums(rec, s, Len(s.periods))
  IN [rendered        |-> TRUE,
      totalPoints     |-> day.total,
      maxPoints       |-> day.max,
      percent         |-> Percent(day.total, day.max),
      perPeriodTotals |-> [p \in PerIds(s) |-> PeriodSums(rec, s, p, Len(s.categories))],
      goalMet         |-> GoalMet(day.total, s)]

\* Settings and Records the totals are computed for: up to two periods and
\* two categories, either scale, cells scored, unset, absent or stale
TotalsCategories == {<<>>, <<[id |-> 1, name |-> "Be Respectful"]>>,
                     <<[id |-> 1, name |-> "Be Respectful"], [id |-> 2, name |-> "On Task"]>>}
TotalsPeriods == {<<>>, <<[id |-> 2, name |-> "Reading"]>>,
                  <<[id |-> 1, name |-> "Arrival"], [id |-> 2, name |-> "Reading"]>>}
TotalsSettings ==
  {[scaleMax |-> sm, scaleLabels |-> DefaultLabels, categories |-> cs, periods |-> ps,
    goalPoints |-> g] :
     sm \in {3, 10}, cs \in TotalsCategories, ps \in TotalsPeriods, g \in {6, 24}}
TotalsMatrices ==
  LET full == {(1 :> (1 :> a @@ 2 :> b)) @@ (2 :> (1 :> c @@ 2 :> d)) :
                 a \in {3, 10}, b \in {2, 10, Null}, c \in {Null, 3}, d \in {0, 1}}
  IN full \cup {[p \in {1} |-> m[p]] : m \in full}
          \cup {(1 :> m[1]) @@ (2 :> [c \in {1} |-> m[2][c]]) : m \in full}
TotalsRecords == {Put(NewRecord(InitSettings, 1, 1), "matrix", m) : m \in TotalsMatrices}

InitTotals ==
  /\ students = <<[id |-> 1, name |-> SethExample]>>
  /\ settings \in TotalsSettings
  /\ date = 1
  /\ studentId = 1
  /\ \E rec \in TotalsRecords : entries = (Key(1, 1) :> rec)
  /\ uids = [cat |-> 2, per |-> 2, stu |-> 1]
  /\ reads = <<>>
  /\ alerted = FALSE
  /\ crashed = FALSE
  /\ steps = 0
  /\ last = "mount"
  /\ totals = NotRendered

\* a render: the totals useMemo runs on the active record and the settings
Render ==
  /\ ~totals.rendered
  /\ totals' = Totals(entries[key], settings)
  /\ last' = "render"
  /\ UNCHANGED <<students, settings, date, studentId, entries, uids, reads, alerted,
                 crashed, steps>>

NextTotals == Render

SpecTotals == InitTotals /\ [][NextTotals]_vars

-----------------------------------------------------------------------------
(* Properties                                                              *)

Matrix(k) == entries[k].matrix

\* the cells a matrix holds, as (period, category) pairs
Cells(m) == UNION {{<<p, c>> : c \in DOMAIN m[p]} : p \in DOMAIN m}

\* the matrix has a cell for every period and category of the settings
Complete(m, s) ==
  \A p \in PerIds(s) : p \in DOMAIN m /\ \A c \in CatIds(s) : c \in DOMAIN m[p]

\* C1 (invariant R1): in every settled state a record exists in entries for
\* the active key, and its matrix has a cell for every period and every
\* category of the current settings.
C1_ActiveRecordComplete ==
  /\ key \in DOMAIN entries
  /\ Complete(Matrix(key), settings)

\* C1 witness: a record created lazily for another key, repaired by the
\* reconciliation after a category was added.
C1_Witness ==
  /\ last = "addCategory"
  /\ key # Key(1, 1)
  /\ Cardinality(CatIds(settings)) = 2
  /\ C1_ActiveRecordComplete

Saturated(raw, m) ==
  IF raw = <<>> \/ parseInt(raw).nan THEN Null
  ELSE IF parseInt(raw).n > m THEN m
  ELSE IF parseInt(raw).n < 0 THEN 0
  ELSE parseInt(raw).n

RECURSIVE SumOver(_, _)
SumOver(S, f) ==
  IF S = {} THEN 0 ELSE LET x == CHOOSE y \in S : TRUE IN f[x] + SumOver(S \ {x}, f)

\* spec 4.2: a cell's score, an unset or missing cell counting 0
ScoreOrZero(rec, p, c) == LET v == Cell(rec, p, c) IN IF IsNumber(v) THEN v ELSE 0
RefPeriodTotal(rec, s, p) == SumOver(CatIds(s), [c \in CatIds(s) |-> ScoreOrZero(rec, p, c)])
RefPeriodMax(s) == Cardinality(CatIds(s)) * s.scaleMax
RefDailyTotal(rec, s) == SumOver(PerIds(s), [p \in PerIds(s) |-> RefPeriodTotal(rec, s, p)])
RefDailyMax(s) == SumOver(PerIds(s), [p \in PerIds(s) |-> RefPeriodMax(s)])
\* round(100 * t / m), a half going up
RefPercent(t, m) == IF m > 0 THEN (200 * t + m) \div (2 * m) ELSE 0

\* the rendered sums, maxima and goal test are those of the reference definition
TotalsSumsMatchReference ==
  totals.rendered =>
    /\ totals.totalPoints = RefDailyTotal(entries[key], settings)
    /\ totals.maxPoints = RefDailyMax(settings)
    /\ \A p \in PerIds(settings) :
         /\ totals.perPeriodTotals[p].total = RefPeriodTotal(entries[key], settings, p)
         /\ totals.perPeriodTotals[p].max = RefPeriodMax(settings)
    /\ totals.goalMet = (RefDailyTotal(entries[key], settings) >= settings.goalPoints)

\* C4: for any Record and Settings the computed totals equal the reference
\* definition: the period and daily sums and maxima, percent equal to
\* round(100 * dailyTotal / dailyMax) (0 when dailyMax is 0), and goalMet
\* exactly when dailyTotal >= goalPoints.
C4_TotalsMatchReference ==
  /\ TotalsSumsMatchReference
  /\ totals.rendered =>
       totals.percent = RefPercent(RefDailyTotal(entries[key], settings), RefDailyMax(settings))

\* the value of a cell <<p, c>> of a matrix
At(m, cell) == m[cell[1]][cell[2]]

\* every row and cell of m is in m2 with the value it had
Keeps(m, m2) ==
  /\ DOMAIN m \subseteq DOMAIN m2
  /\ \A cell \in Cells(m) : cell \in Cells(m2) /\ At(m2, cell) = At(m, cell)

\* the cells of m2 that m did not have
Added(m, m2) == Cells(m2) \ Cells(m)

\* r2 is r but for its matrix, which keeps every cell of r's and adds only
\* unset cells
Completed(r, r2) ==
  /\ DOMAIN r2 = DOMAIN r
  /\ \A f \in DOMAIN r \ {"matrix"} : r2[f] = r[f]
  /\ Keeps(r.matrix, r2.matrix)
  /\ \A cell \in Added(r.matrix, r2.matrix) : At(r2.matrix, cell) = Null

\* C5: adding a category (or a period) and re-fetching an existing Record
\* leave every cell the Record had with its value and add only unset cells:
\* to the active Record, on the addition, exactly the cells of the new
\* category across all periods (of the new period across all categories);
\* to a Record fetched later, on the fetch, only cells of the current
\* periods and categories.  No scored cell is overwritten.
C5_AddingKeepsScores ==
  [][ last' \in {"addCategory", "addPeriod", "setDate", "setStudentId"} =>
        \A k \in DOMAIN entries :
          /\ k \in DOMAIN entries'
          /\ Completed(entries[k], entries'[k])
          /\ k # key' => entries'[k] = entries[k]
          /\ Added(entries[k].matrix, entries'[k].matrix)
               \subseteq PerIds(settings') \X CatIds(settings')
          /\ (k = key' /\ last' = "addCategory") =>
               Added(entries[k].matrix, entries'[k].matrix)
                 = PerIds(settings') \X {uids'.cat}
          /\ (k = key' /\ last' = "addPeriod") =>
               Added(entries[k].matrix, entries'[k].matrix)
                 = {uids'.per} \X CatIds(settings')
    ]_vars

\* C5 witness: a date was re-fetched whose Record holds the score 2 it had
\* and an unset cell for the added category 2
C5_Witness ==
  /\ last = "setDate"
  /\ key = Key(1, 1)
  /\ Len(settings.categories) = 2
  /\ Matrix(key)[1][1] = 2
  /\ Matrix(key)[1][2] = Null
  /\ Key(2, 1) \in DOMAIN entries

\* C7 as stated: removeStudent(id), declined, leaves students, studentId,
\* settings and entries unchanged; confirmed, it removes the student from the
\* roster and no Record is removed from or changed in entries.
C7_RemovalChangesNoRecord ==
  [][ \A id \in 1..MaxStudentIds :
        /\ removeStudent(id, FALSE) => UNCHANGED <<students, studentId, settings, entries>>
        /\ removeStudent(id, TRUE) =>
             /\ students' = SelectSeq(students, LAMBDA s : s.id # id)
             /\ \A k \in DOMAIN entries : k \in DOMAIN entries' /\ entries'[k] = entries[k]
    ]_vars

\* C7 (as the code has it): removeStudent(id), declined, leaves students,
\* studentId, settings and entries unchanged; confirmed, it removes the
\* student from the roster and removes no Record: every key of entries stays,
\* the Records of the removed student and every Record but the one that
\* becomes active are unchanged, and the Record that becomes active keeps its
\* cells and fields and gains only unset cells.
C7_RemoveStudentKeepsRecords ==
  [][ \A id \in 1..MaxStudentIds :
        /\ removeStudent(id, FALSE) => UNCHANGED <<students, studentId, settings, entries>>
        /\ removeStudent(id, TRUE) =>
             /\ students' = SelectSeq(students, LAMBDA s : s.id # id)
             /\ settings' = settings
             /\ \A k \in DOMAIN entries :
                  /\ k \in DOMAIN entries'
                  /\ (k[2] = id \/ k # key' \/ key' = key) => entries'[k] = entries[k]
                  /\ Completed(entries[k], entries'[k])
    ]_vars

\* C7 witness: a student was removed and a Record of a student who is no
\* longer in the roster is still in entries
C7_Witness ==
  /\ last = "removeStudent"
  /\ \E k \in DOMAIN entries : k[2] \notin Ids(students)

\* a file fails the structural validation of spec 4.1: it is no JSON, no
\* object, or an object without categories, periods, a scale or goalPoints
FailsValidation(file) ==
  \/ file.kind # "object"
  \/ ~ {"categories", "periods", "scaleMax", "goalPoints"} \subseteq DOMAIN file.val

\* C6: when the file of a settings import fails structural validation, the
\* completion of the import signals an error to the user and leaves Settings
\* and every Record as they were.
C6_FailedImportLeavesState ==
  [][ \A i \in 1..MaxReads :
        (onload(i) /\ FailsValidation(reads[i].file)) =>
          /\ alerted'
          /\ ~crashed'
          /\ UNCHANGED <<settings, entries>>
    ]_vars

\* C8: exporting the Settings to JSON and importing that JSON back yields
\* Settings deep-equal to the original.
C8_SettingsRoundTrip ==
  JSONparse(exportSettingsJSON(settings)) = settings

\* C9 as stated: in the settled state after any change every Record in
\* entries has a cell for every (periodId, categoryId) pair of the current
\* settings.
C9_EveryRecordComplete ==
  \A k \in DOMAIN entries : Complete(entries[k].matrix, settings)

\* C9 (as the code has it): when an editor of the settings (add, remove,
\* reorder, rename of a category or period) changes settings.categories or
\* settings.periods, reconciliation runs against the active Record only: in
\* the settled state the active Record has a cell for every pair of the
\* current settings, and every other Record in entries is unchanged.
C9_OnlyActiveRecordReconciled ==
  [][ last' \in {"addCategory", "addPeriod", "move", "remove", "rename"} =>
        /\ Complete(entries'[key'].matrix, settings')
        /\ DOMAIN entries' = DOMAIN entries
        /\ \A k \in DOMAIN entries : k # key' => entries'[k] = entries[k]
    ]_vars

\* C9 witness: a category was added and a Record other than the active one
\* lacks the cells of the new category
C9_Witness ==
  /\ last = "addCategory"
  /\ Complete(Matrix(key), settings)
  /\ \E k \in DOMAIN entries : k # key /\ ~Complete(entries[k].matrix, settings)

\* C10: a successful settings import leaves the scored cells of the active
\* Record, for period and category ids still present in the imported
\* settings, with their scores, and sets only absent cells to unset.
C10_ImportKeepsScores ==
  [][ \A i \in 1..MaxReads :
        (onload(i) /\ ~Rejected(reads[i].file) /\ ~Unrenderable(reads[i].file)) =>
          \A cell \in Cells(Matrix(key)) \cap (PerIds(settings') \X CatIds(settings')) :
            IsNumber(At(Matrix(key), cell)) =>
              At(entries'[key'].matrix, cell) = At(Matrix(key), cell)
    ]_vars

\* C11: reconciliation is idempotent: for every Record of entries and the
\* current Settings, reconciling the Record twice yields the Record that
\* reconciling it once yields; the second run changes no cell.
C11_ReconciliationIdempotent ==
  \A k \in DOMAIN entries :
    LET once == ReconcileEffect(entries, settings, k)
    IN ReconcileEffect(once, settings, k) = once

\* C11 witness: after a category was added there is a Record to which a
\* first reconciliation adds cells
C11_Witness ==
  /\ last = "addCategory"
  /\ \E k \in DOMAIN entries :
       Added(entries[k].matrix, ReconcileEffect(entries, settings, k)[k].matrix) # {}

\* C12: changing scaleMax, up or down, leaves entries unchanged: no stored
\* score of any Record is clamped or cleared by the edit.
C12_ScaleMaxLeavesEntries ==
  [][ \A raw \in ScaleRaws : SetScaleMax(raw) => entries' = entries ]_vars

\* C12 witness: scaleMax was lowered to 1 and the Record of (1, 1) still
\* holds the score 2
C12_Witness ==
  /\ last = "setScaleMax"
  /\ Get(settings, "scaleMax") = 1
  /\ Key(1, 1) \in DOMAIN entries
  /\ Matrix(Key(1, 1))[1][1] = 2

\* C13: after a confirmed removeStudent of any student, whenever the roster
\* is still non-empty the active studentId is the id of a student in the
\* roster.
C13_ActiveStudentInRoster ==
  [][ \A id \in 1..MaxStudentIds :
        (removeStudent(id, TRUE) /\ students' # <<>>) => studentId' \in Ids(students')
    ]_vars

\* C14: whatever the user did between the start of a settings import and its
\* completion, the completion modifies only the Record that is active when
\* it completes: every other Record of entries, the one that was active when
\* the read was started included, is unchanged.
C14_CompletionTouchesActiveOnly ==
  [][ \A i \in 1..MaxReads :
        onload(i) =>
          \A k \in DOMAIN entries :
            k # key' => (k \in DOMAIN entries' /\ entries'[k] = entries[k])
    ]_vars

====
